---- MODULE Spec2Model ----
(***************************************************************************)
(* openbb_terminal/jupyter/widget_helpers.py: the report fragment helpers. *)
(*                                                                         *)
(* A string is a sequence of tokens: a literal piece of a format string or *)
(* of a file, or a value formatted into it.  The empty string is << >>.    *)
(* A str argument of an operation is one token.                            *)
(***************************************************************************)
EXTENDS Integers, Sequences, FiniteSets, TLC

VARIABLES
    files,      \* the widgets directory: path -> [exists, text]
    handles,    \* the open file objects: records [fd, path, pos, unlinked, data]
    stdout,     \* the lines print() has written
    fsChanges,  \* how many times something outside the module changed a file
    pc,         \* caller -> where its current call stands
    op,         \* caller -> the operation it called
    args,       \* caller -> the arguments of the call
    fd,         \* caller -> the file object `f` of its with block (0: none)
    buf,        \* caller -> what f.read() returned (`style`, the template text)
    outcome     \* caller -> what the call returned or raised

vars == <<files, handles, stdout, fsChanges, pc, op, args, fd, buf, outcome>>

\* ---------------------------------------------------------------- bounds

NumCallers == 2
MaxFsChanges == 2
MaxPrints == 2
MaxThresholds == 3
MaxSentences == 4
MaxVal == 3
MaxTabs == 10
MaxRow == 2

Callers == 1..NumCallers
MainCaller == CHOOSE c \in Callers : \A d \in Callers : c <= d

\* ------------------------------------------------------- pure operations

str(x) == ToString(x)

h(level, text) == <<"<h", str(level), ">", text, "</h", str(level), ">">>

p(text) == <<"<p>", text, "</p>">>

KpiError == "Error. KPI condition is not correctly set"

kpi_red(sentence, value, threshold) ==
    <<"<p style=\"color:red\">&#10060; ", sentence, ". ", str(value), " < ",
      str(threshold), " </p>">>

kpi_green(sentence, value, threshold) ==
    <<"<p style=\"color:green\">&#x2705; ", sentence, ". ", str(value), " > ",
      str(threshold), " </p>">>

kpi_orange(sentence, low, value, high) ==
    <<"<p style=\"color:orange\">&#128993; ", sentence, ". ", str(low), " < ",
      str(value), " < ", str(high), " </p>">>

Returns(html) == [ret |-> html, printed |-> << >>]

\* kpi with the low test not strict.
kpi_le(thresholds, sentences, value) ==
    IF Len(thresholds) = 1 /\ Len(sentences) = 2
    THEN IF value <= thresholds[1]
         THEN Returns(kpi_red(sentences[1], value, thresholds[1]))
         ELSE Returns(kpi_green(sentences[2], value, thresholds[1]))
    ELSE IF Len(thresholds) = 2 /\ Len(sentences) = 3
    THEN IF value <= thresholds[1]
         THEN Returns(kpi_red(sentences[1], value, thresholds[1]))
         ELSE IF value > thresholds[2]
         THEN Returns(kpi_green(sentences[3], value, thresholds[2]))
         ELSE Returns(kpi_orange(sentences[2], thresholds[1], value, thresholds[2]))
    ELSE [ret |-> << >>, printed |-> <<KpiError>>]

\* kpi with the high test not strict.
kpi_ge(thresholds, sentences, value) ==
    IF Len(thresholds) = 1 /\ Len(sentences) = 2
    THEN IF value < thresholds[1]
         THEN Returns(kpi_red(sentences[1], value, thresholds[1]))
         ELSE Returns(kpi_green(sentences[2], value, thresholds[1]))
    ELSE IF Len(thresholds) = 2 /\ Len(sentences) = 3
    THEN IF value < thresholds[1]
         THEN Returns(kpi_red(sentences[1], value, thresholds[1]))
         ELSE IF value >= thresholds[2]
         THEN Returns(kpi_green(sentences[3], value, thresholds[2]))
         ELSE Returns(kpi_orange(sentences[2], thresholds[1], value, thresholds[2]))
    ELSE [ret |-> << >>, printed |-> <<KpiError>>]

\* kpi whose length tests read >= where the code reads ==.
kpi_ge_shape(thresholds, sentences, value) ==
    IF Len(thresholds) = 1 /\ Len(sentences) = 2
    THEN IF value < thresholds[1]
         THEN Returns(kpi_red(sentences[1], value, thresholds[1]))
         ELSE Returns(kpi_green(sentences[2], value, thresholds[1]))
    ELSE IF Len(thresholds) >= 2 /\ Len(sentences) >= 3
    THEN IF value < thresholds[1]
         THEN Returns(kpi_red(sentences[1], value, thresholds[1]))
         ELSE IF value > thresholds[2]
         THEN Returns(kpi_green(sentences[3], value, thresholds[2]))
         ELSE Returns(kpi_orange(sentences[2], thresholds[1], value, thresholds[2]))
    ELSE [ret |-> << >>, printed |-> <<KpiError>>]

\* kpi with the green test of the 2-threshold shape made before the red one.
kpi_green_first(thresholds, sentences, value) ==
    IF Len(thresholds) = 1 /\ Len(sentences) = 2
    THEN IF value < thresholds[1]
         THEN Returns(kpi_red(sentences[1], value, thresholds[1]))
         ELSE Returns(kpi_green(sentences[2], value, thresholds[1]))
    ELSE IF Len(thresholds) = 2 /\ Len(sentences) = 3
    THEN IF value > thresholds[2]
         THEN Returns(kpi_green(sentences[3], value, thresholds[2]))
         ELSE IF value < thresholds[1]
         THEN Returns(kpi_red(sentences[1], value, thresholds[1]))
         ELSE Returns(kpi_orange(sentences[2], thresholds[1], value, thresholds[2]))
    ELSE [ret |-> << >>, printed |-> <<KpiError>>]

\* kpi that prints its diagnostic on the red path of the 1-threshold shape too.
kpi_noisy(thresholds, sentences, value) ==
    IF Len(thresholds) = 1 /\ Len(sentences) = 2
    THEN IF value < thresholds[1]
         THEN [ret |-> kpi_red(sentences[1], value, thresholds[1]),
               printed |-> <<KpiError>>]
         ELSE Returns(kpi_green(sentences[2], value, thresholds[1]))
    ELSE IF Len(thresholds) = 2 /\ Len(sentences) = 3
    THEN IF value < thresholds[1]
         THEN Returns(kpi_red(sentences[1], value, thresholds[1]))
         ELSE IF value > thresholds[2]
         THEN Returns(kpi_green(sentences[3], value, thresholds[2]))
         ELSE Returns(kpi_orange(sentences[2], thresholds[1], value, thresholds[2]))
    ELSE [ret |-> << >>, printed |-> <<KpiError>>]

\* kpi: the value it returns and the lines it prints.  Python's lists are
\* 0-based, sequences 1-based: thresholds[0] is thresholds[1] here.
kpi(thresholds, sentences, value) ==
    IF Len(thresholds) = 1 /\ Len(sentences) = 2
    THEN IF value < thresholds[1]
         THEN Returns(kpi_red(sentences[1], value, thresholds[1]))
         ELSE Returns(kpi_green(sentences[2], value, thresholds[1]))
    ELSE IF Len(thresholds) = 2 /\ Len(sentences) = 3
    THEN IF value < thresholds[1]
         THEN Returns(kpi_red(sentences[1], value, thresholds[1]))
         ELSE IF value > thresholds[2]
         THEN Returns(kpi_green(sentences[3], value, thresholds[2]))
         ELSE Returns(kpi_orange(sentences[2], thresholds[1], value, thresholds[2]))
    ELSE [ret |-> << >>, printed |-> <<KpiError>>]

add_tab(title, htmlcode) ==
    <<"<div id=\"", title, "\" class=\"tabcontent\"></br>",
      "<p style=\"border:3px; border-style:solid; border-color:#000000; padding: 1em; width: 1050px;\" contentEditable=\"true\"> No comment. </p>",
      htmlcode, "</div>">>

tab_clickable_evt ==
    <<"<script> function menu(evt, menu_name) {...} window.onload=function(){ menu(event, 'SUMMARY'); }; </script>">>

BreakEvery == 5

TabButton(tab) ==
    <<"<button class=\"tablinks\" onclick=\"menu(event, '", tab, "')\">", tab,
      "</button>">>

\* The for loop of tablinks from the tab at 1-based position idx on;
\* enumerate's idx is idx - 1, so (idx + 1) % 5 there is idx % 5 here.
RECURSIVE tablinks_loop(_, _, _)
tablinks_loop(tabs, idx, htmlcode) ==
    IF idx > Len(tabs) THEN htmlcode
    ELSE LET button == htmlcode \o TabButton(tabs[idx])
         IN  tablinks_loop(tabs, idx + 1,
                 IF idx % BreakEvery = 0 THEN button \o <<"</br>">> ELSE button)

\* tablinks that breaks the line every 6 tabs, as its docstring reads.
RECURSIVE tablinks_loop6(_, _, _)
tablinks_loop6(tabs, idx, htmlcode) ==
    IF idx > Len(tabs) THEN htmlcode
    ELSE LET button == htmlcode \o TabButton(tabs[idx])
         IN  tablinks_loop6(tabs, idx + 1,
                 IF idx % (BreakEvery + 1) = 0 THEN button \o <<"</br>">> ELSE button)

tablinks_every6(tabs) ==
    tablinks_loop6(tabs, 1, <<"<div class=\"tab\">">>) \o <<"</div>">>

tablinks(tabs) ==
    tablinks_loop(tabs, 1, <<"<div class=\"tab\">">>) \o <<"</div>">>

header(img, author, report_date, report_time, report_tz, title) ==
    <<"<div style=\"display:flex; margin-bottom:1cm;\">", img,
      "<div style=\"margin-left:2em\"> <p><b>Analyst:</b> ", author,
      "</p> <p><b>Date   :</b> ", report_date,
      "</p> <p><b>Time   :</b> ", report_time, " ", report_tz,
      "</p> <br/> <p>", title, "</p> </div> </div>">>

\* ------------------------------------------------- the widgets directory

Paths == {"style.css", "card.j2", "report.css", "report.j2", "row.j2"}

FileOps ==
    {"price_card_stylesheet", "price_card", "html_report_stylesheet",
     "html_report", "row"}

TemplateOps == {"price_card", "html_report", "row"}

PureOps ==
    {"h", "p", "kpi", "add_tab", "tab_clickable_evt", "tablinks", "header"}

Ops == FileOps \cup PureOps

\* os.path.join(dirname(__file__), "widgets", <name>) of each operation.
PathOf(o) ==
    CASE o = "price_card_stylesheet" -> "style.css"
      [] o = "price_card" -> "card.j2"
      [] o = "html_report_stylesheet" -> "report.css"
      [] o = "html_report" -> "report.j2"
      [] o = "row" -> "row.j2"

\* The files as shipped.  A template is its literal pieces and its slots.
ForElements == "{% for element in elements %}{{ element }}{% endfor %}"

StyleCss == <<".card { width: 128px; height: 128px; }">>

ReportCss == <<"body { font-family: sans-serif; }">>

CardJ2 ==
    <<"<div class=\"card\"><p>", "{{ ticker }}", "</p><p class=\"",
      "{{ price_color }}", "\">", "{{ price }}", "</p></div>">>

ReportJ2 ==
    <<"<html><head><title>", "{{ title }}", "</title><style>",
      "{{ stylesheet }}", "</style></head><body>", "{{ body }}",
      "</body></html>">>

RowJ2 == <<"<div class=\"row\">", ForElements, "</div>">>

Shipped(path) ==
    CASE path = "style.css" -> StyleCss
      [] path = "card.j2" -> CardJ2
      [] path = "report.css" -> ReportCss
      [] path = "report.j2" -> ReportJ2
      [] path = "row.j2" -> RowJ2

\* What an edit may leave in a file: the shipped text, the shipped text with
\* a line added in front, and for a template a text Jinja cannot parse.
Edited(path) == <<"/* edited */">> \o Shipped(path)

Unparsable == <<"{% for element in">>

IsTemplate(path) == path \in {"card.j2", "report.j2", "row.j2"}

Texts(path) ==
    {Shipped(path), Edited(path)}
        \cup (IF IsTemplate(path) THEN {Unparsable} ELSE {})

Present(text) == [exists |-> TRUE, text |-> text]

Absent == [exists |-> FALSE, text |-> << >>]

ShippedFiles == [path \in Paths |-> Present(Shipped(path))]

\* -------------------------------------------------------------- Jinja2

\* Template(text) raises TemplateSyntaxError on a text it cannot parse.
Parses(text) == \A i \in DOMAIN text : text[i] # Unparsable[1]

Lookup(ctx, name) == IF name \in DOMAIN ctx THEN <<ctx[name]>> ELSE << >>

\* What one piece of a template renders to: a slot renders to its value, an
\* undefined name to nothing, the for loop to the elements in order.
Expand(tok, ctx) ==
    CASE tok = "{{ ticker }}" -> Lookup(ctx, "ticker")
      [] tok = "{{ price }}" -> Lookup(ctx, "price")
      [] tok = "{{ price_color }}" -> Lookup(ctx, "price_color")
      [] tok = "{{ title }}" -> Lookup(ctx, "title")
      [] tok = "{{ stylesheet }}" -> Lookup(ctx, "stylesheet")
      [] tok = "{{ body }}" -> Lookup(ctx, "body")
      [] tok = ForElements ->
            IF "elements" \in DOMAIN ctx THEN ctx.elements ELSE << >>
      [] OTHER -> <<tok>>

RECURSIVE Render(_, _)
Render(text, ctx) ==
    IF text = << >> THEN << >>
    ELSE Expand(Head(text), ctx) \o Render(Tail(text), ctx)

Reverse(s) == [i \in 1..Len(s) |-> s[Len(s) + 1 - i]]

\* row handing its elements to the template back to front.
row_context_reversed(elements) == [elements |-> Reverse(elements)]

\* The keyword arguments of each template.render call.
row_context(elements) == [elements |-> elements]

price_card_context(ticker, price, price_color) ==
    [ticker |-> ticker, price |-> price, price_color |-> price_color]

html_report_context(title, stylesheet, body) ==
    [title |-> title, stylesheet |-> stylesheet, body |-> body]

Context(o, a) ==
    CASE o = "price_card" -> price_card_context(a.ticker, a.price, a.price_color)
      [] o = "html_report" -> html_report_context(a.title, a.stylesheet, a.body)
      [] o = "row" -> row_context(a.elements)

\* ------------------------------------------------------- file objects

Min(S) == CHOOSE n \in S : \A m \in S : n <= m

\* The file object of a handle number.
HandleOf(hs, n) == CHOOSE x \in hs : x.fd = n

IsOpen(hs, n) == \E x \in hs : x.fd = n

\* open() that hands out the file object already open on the path, if any.
open_shared(hs, path) ==
    IF \E x \in hs : x.path = path
    THEN [fd |-> (CHOOSE x \in hs : x.path = path).fd, handles |-> hs]
    ELSE LET n == Min((1..(Cardinality(hs) + 1)) \ {x.fd : x \in hs})
         IN  [fd |-> n,
              handles |-> hs \cup {[fd |-> n, path |-> path, pos |-> 0,
                                    unlinked |-> FALSE, data |-> << >>]}]

\* open(path) of an existing file: a new file object at position 0, and
\* the table of open file objects with it.
open(hs, path) ==
    LET n == Min((1..(Cardinality(hs) + 1)) \ {x.fd : x \in hs})
    IN  [fd |-> n,
         handles |-> hs \cup {[fd |-> n, path |-> path, pos |-> 0,
                               unlinked |-> FALSE, data |-> << >>]}]

\* The text a file object reads: the file's, or what the file held when it
\* was removed under the open file object.
TextOf(x) == IF x.unlinked THEN x.data ELSE files[x.path].text

\* f.read(): the text from the position to the end.
read(x) == SubSeq(TextOf(x), x.pos + 1, Len(TextOf(x)))

\* ------------------------------------------------------------ outcomes

NoArgs == [n |-> 0]

NoOutcome == [kind |-> "none", exc |-> "", ret |-> << >>]

Returned(html) == [kind |-> "returned", exc |-> "", ret |-> html]

Raised(exc) == [kind |-> "raised", exc |-> exc, ret |-> << >>]

\* ------------------------------------------------------------- inputs

SeqsUpTo(S, n) == UNION {[1..k -> S] : k \in 0..n}

Fragments == {"<p>a</p>", "<p>b</p>"}

KpiArgs(thresholdLists, sentenceLists, values) ==
    [thresholds : thresholdLists, sentences : sentenceLists, value : values]

\* The arguments a caller of the whole module draws from.
ArgSet(o) ==
    CASE o \in {"price_card_stylesheet", "html_report_stylesheet",
                "tab_clickable_evt"} -> {NoArgs}
      [] o = "price_card" ->
            [ticker : {"AAPL"}, price : {"1.0"},
             price_color : {"neutral_color", "up_color"}]
      [] o = "html_report" ->
            [title : {"Report"}, stylesheet : {""}, body : {"", "<p>a</p>"}]
      [] o = "h" -> [level : {1, 3}, text : {"x"}]
      [] o = "p" -> [text : {"x"}]
      [] o = "row" -> [elements : SeqsUpTo(Fragments, MaxRow)]
      [] o = "kpi" ->
            KpiArgs({<<1>>, <<1, 2>>}, {<<"a", "b">>, <<"a", "b", "c">>}, {0, 1})
      [] o = "add_tab" -> [title : {"SUMMARY"}, htmlcode : {"<p>a</p>"}]
      [] o = "tablinks" -> [tabs : {<< >>, <<"SUMMARY">>}]
      [] o = "header" ->
            [img : {"<img/>"}, author : {"me"}, report_date : {"2022-01-01"},
             report_time : {"12:00"}, report_tz : {"UTC"}, title : {"Report"}]

\* The arguments of the concurrent callers: the defaults where the
\* signature has them.
DefaultArgs(o) ==
    CASE o \in {"price_card_stylesheet", "html_report_stylesheet"} -> NoArgs
      [] o = "price_card" ->
            [ticker |-> "AAPL", price |-> "1.0", price_color |-> "neutral_color"]
      [] o = "html_report" -> [title |-> "", stylesheet |-> "", body |-> ""]
      [] o = "row" -> [elements |-> <<"<p>a</p>", "<p>b</p>">>]

\* ------------------------------------------------------------ the calls

Idle(c) == pc[c] = "idle"

StartCall(c, o, a) ==
    /\ Idle(c)
    /\ pc' = [pc EXCEPT ![c] = "called"]
    /\ op' = [op EXCEPT ![c] = o]
    /\ args' = [args EXCEPT ![c] = a]
    /\ UNCHANGED <<files, handles, stdout, fsChanges, fd, buf, outcome>>

\* A caller calls an operation of the module.
Call(c) == \E o \in Ops : \E a \in ArgSet(o) : StartCall(c, o, a)

\* A concurrent caller calls one of the file-reading operations.
CallFileOp(c) == \E o \in FileOps : StartCall(c, o, DefaultArgs(o))

\* An operation that reads no file returns html.
ReturnPure(c, o, html) ==
    /\ pc[c] = "called"
    /\ op[c] = o
    /\ pc' = [pc EXCEPT ![c] = "done"]
    /\ outcome' = [outcome EXCEPT ![c] = Returned(html)]
    /\ UNCHANGED <<files, handles, stdout, fsChanges, op, args, fd, buf>>

h_call(c) == ReturnPure(c, "h", h(args[c].level, args[c].text))

p_call(c) == ReturnPure(c, "p", p(args[c].text))

add_tab_call(c) ==
    ReturnPure(c, "add_tab", add_tab(args[c].title, args[c].htmlcode))

tab_clickable_evt_call(c) ==
    ReturnPure(c, "tab_clickable_evt", tab_clickable_evt)

tablinks_call(c) == ReturnPure(c, "tablinks", tablinks(args[c].tabs))

header_call(c) ==
    ReturnPure(c, "header",
        header(args[c].img, args[c].author, args[c].report_date,
               args[c].report_time, args[c].report_tz, args[c].title))

\* kpi returns its message, or prints its diagnostic and returns "".
kpi_call(c) ==
    /\ pc[c] = "called"
    /\ op[c] = "kpi"
    /\ LET r == kpi(args[c].thresholds, args[c].sentences, args[c].value)
       IN  /\ Len(stdout) + Len(r.printed) <= MaxPrints
           /\ stdout' = stdout \o r.printed
           /\ outcome' = [outcome EXCEPT ![c] = Returned(r.ret)]
    /\ pc' = [pc EXCEPT ![c] = "done"]
    /\ UNCHANGED <<files, handles, fsChanges, op, args, fd, buf>>

\* Open that returns "" when the file is missing.
OpenSwallow(c) ==
    /\ pc[c] = "called"
    /\ op[c] \in FileOps
    /\ IF files[PathOf(op[c])].exists
       THEN LET o == open(handles, PathOf(op[c]))
            IN  /\ handles' = o.handles
                /\ fd' = [fd EXCEPT ![c] = o.fd]
                /\ pc' = [pc EXCEPT ![c] = "opened"]
                /\ UNCHANGED outcome
       ELSE /\ outcome' = [outcome EXCEPT ![c] = Returned(<< >>)]
            /\ pc' = [pc EXCEPT ![c] = "done"]
            /\ UNCHANGED <<handles, fd>>
    /\ UNCHANGED <<files, stdout, fsChanges, op, args, buf>>

\* with open(...) as f: a missing file raises FileNotFoundError (an
\* OSError, which IOError names) out of the operation.
Open(c) ==
    /\ pc[c] = "called"
    /\ op[c] \in FileOps
    /\ IF files[PathOf(op[c])].exists
       THEN LET o == open(handles, PathOf(op[c]))
            IN  /\ handles' = o.handles
                /\ fd' = [fd EXCEPT ![c] = o.fd]
                /\ pc' = [pc EXCEPT ![c] = "opened"]
                /\ UNCHANGED outcome
       ELSE /\ outcome' = [outcome EXCEPT ![c] = Raised("FileNotFoundError")]
            /\ pc' = [pc EXCEPT ![c] = "done"]
            /\ UNCHANGED <<handles, fd>>
    /\ UNCHANGED <<files, stdout, fsChanges, op, args, buf>>

\* Read that answers from the text loaded when the module was imported.
ReadStale(c) ==
    /\ pc[c] = "opened"
    /\ IF IsOpen(handles, fd[c])
       THEN LET x == HandleOf(handles, fd[c])
            IN  /\ buf' = [buf EXCEPT ![c] = Shipped(x.path)]
                /\ handles' = (handles \ {x})
                                  \cup {[x EXCEPT !.pos = Len(TextOf(x))]}
                /\ pc' = [pc EXCEPT ![c] = "read"]
                /\ UNCHANGED <<fd, outcome>>
       ELSE /\ outcome' = [outcome EXCEPT ![c] = Raised("ValueError")]
            /\ fd' = [fd EXCEPT ![c] = 0]
            /\ pc' = [pc EXCEPT ![c] = "done"]
            /\ UNCHANGED <<buf, handles>>
    /\ UNCHANGED <<files, stdout, fsChanges, op, args>>

\* f.read() inside the with block; reading a closed file object raises
\* ValueError.
Read(c) ==
    /\ pc[c] = "opened"
    /\ IF IsOpen(handles, fd[c])
       THEN LET x == HandleOf(handles, fd[c])
            IN  /\ buf' = [buf EXCEPT ![c] = read(x)]
                /\ handles' = (handles \ {x})
                                  \cup {[x EXCEPT !.pos = Len(TextOf(x))]}
                /\ pc' = [pc EXCEPT ![c] = "read"]
                /\ UNCHANGED <<fd, outcome>>
       ELSE /\ outcome' = [outcome EXCEPT ![c] = Raised("ValueError")]
            /\ fd' = [fd EXCEPT ![c] = 0]
            /\ pc' = [pc EXCEPT ![c] = "done"]
            /\ UNCHANGED <<buf, handles>>
    /\ UNCHANGED <<files, stdout, fsChanges, op, args>>

\* The end of the with block closes the file object, also when Template()
\* raised inside it.
Close(c) ==
    /\ pc[c] = "read"
    /\ handles' = {x \in handles : x.fd # fd[c]}
    /\ fd' = [fd EXCEPT ![c] = 0]
    /\ pc' = [pc EXCEPT ![c] = "closed"]
    /\ UNCHANGED <<files, stdout, fsChanges, op, args, buf, outcome>>

\* What the operation hands back once the with block is left: the style,
\* the rendered template, or the TemplateSyntaxError Template() raised.
Return(c) ==
    /\ pc[c] = "closed"
    /\ outcome' = [outcome EXCEPT ![c] =
           IF op[c] \notin TemplateOps THEN Returned(buf[c])
           ELSE IF ~Parses(buf[c]) THEN Raised("TemplateSyntaxError")
           ELSE Returned(Render(buf[c], Context(op[c], args[c])))]
    /\ pc' = [pc EXCEPT ![c] = "done"]
    /\ UNCHANGED <<files, handles, stdout, fsChanges, op, args, fd, buf>>

\* The caller takes the outcome; the call's locals are gone.
Finish(c) ==
    /\ pc[c] = "done"
    /\ pc' = [pc EXCEPT ![c] = "idle"]
    /\ op' = [op EXCEPT ![c] = "none"]
    /\ args' = [args EXCEPT ![c] = NoArgs]
    /\ fd' = [fd EXCEPT ![c] = 0]
    /\ buf' = [buf EXCEPT ![c] = << >>]
    /\ outcome' = [outcome EXCEPT ![c] = NoOutcome]
    /\ UNCHANGED <<files, handles, stdout, fsChanges>>

\* ------------------------------------- what is outside the module does

\* Something writes a text to a file of the widgets directory, in place.
WriteFile(path, text) ==
    /\ fsChanges < MaxFsChanges
    /\ files[path] # Present(text)
    /\ files' = [files EXCEPT ![path] = Present(text)]
    /\ fsChanges' = fsChanges + 1
    /\ UNCHANGED <<handles, stdout, pc, op, args, fd, buf, outcome>>

\* Something removes a file; a file object open on it keeps its text.
RemoveFile(path) ==
    /\ fsChanges < MaxFsChanges
    /\ files[path].exists
    /\ files' = [files EXCEPT ![path] = Absent]
    /\ handles' = {IF x.path = path /\ ~x.unlinked
                   THEN [x EXCEPT !.unlinked = TRUE, !.data = files[path].text]
                   ELSE x : x \in handles}
    /\ fsChanges' = fsChanges + 1
    /\ UNCHANGED <<stdout, pc, op, args, fd, buf, outcome>>

\* ------------------------------------------------------ specifications

\* Nothing open, nothing printed, no call made.
InitLocals ==
    /\ handles = {}
    /\ stdout = << >>
    /\ fsChanges = 0
    /\ fd = [c \in Callers |-> 0]
    /\ buf = [c \in Callers |-> << >>]
    /\ outcome = [c \in Callers |-> NoOutcome]

InitCallers ==
    /\ InitLocals
    /\ pc = [c \in Callers |-> "idle"]
    /\ op = [c \in Callers |-> "none"]
    /\ args = [c \in Callers |-> NoArgs]

\* The main caller has called operation o with arguments a.
InitCalled(o, a) ==
    /\ InitLocals
    /\ pc = [c \in Callers |-> IF c = MainCaller THEN "called" ELSE "idle"]
    /\ op = [c \in Callers |-> IF c = MainCaller THEN o ELSE "none"]
    /\ args = [c \in Callers |-> IF c = MainCaller THEN a ELSE NoArgs]

\* The module as imported, the widgets directory as shipped.
Init ==
    /\ files = ShippedFiles
    /\ InitCallers

Step(c) ==
    \/ h_call(c)
    \/ p_call(c)
    \/ kpi_call(c)
    \/ add_tab_call(c)
    \/ tab_clickable_evt_call(c)
    \/ tablinks_call(c)
    \/ header_call(c)
    \/ Open(c)
    \/ Read(c)
    \/ Close(c)
    \/ Return(c)
    \/ Finish(c)

Environment ==
    \/ \E path \in Paths : \E text \in Texts(path) : WriteFile(path, text)
    \/ \E path \in Paths : RemoveFile(path)

\* One caller making any sequence of calls while files may change.
Next ==
    \/ Call(MainCaller)
    \/ Step(MainCaller)
    \/ Environment

Spec == Init /\ [][Next]_vars

\* Any number of callers at once in the file-reading operations.  The files
\* do not change while they run; the directory is the shipped one, or the
\* shipped one with one file missing or holding another text.
InitConc ==
    /\ files \in {ShippedFiles}
           \cup {[ShippedFiles EXCEPT ![path] = Absent] : path \in Paths}
           \cup UNION {{[ShippedFiles EXCEPT ![path] = Present(text)] :
                            text \in Texts(path)} : path \in Paths}
    /\ InitCallers

NextConc ==
    \E c \in Callers :
        \/ CallFileOp(c)
        \/ Open(c)
        \/ Read(c)
        \/ Close(c)
        \/ Return(c)
        \/ Finish(c)

SpecConc == InitConc /\ [][NextConc]_vars

\* kpi applied to every input within the bounds.
Values == 0..(MaxVal + 1)

InitKpi ==
    /\ files = ShippedFiles
    /\ \E a \in KpiArgs(SeqsUpTo(1..MaxVal, MaxThresholds),
                        SeqsUpTo({"low", "high"}, MaxSentences), Values) :
           InitCalled("kpi", a)

NextKpi == kpi_call(MainCaller)

SpecKpi == InitKpi /\ [][NextKpi]_vars

\* tablinks applied to every list of titles within the bounds.
TabTitles == {"SUMMARY", "NEWS"}

InitTabs ==
    /\ files = ShippedFiles
    /\ \E t \in SeqsUpTo(TabTitles, MaxTabs) : InitCalled("tablinks", [tabs |-> t])

NextTabs == tablinks_call(MainCaller)

SpecTabs == InitTabs /\ [][NextTabs]_vars

\* ---------------------------------------------------------- the claims

KpiDone == pc[MainCaller] = "done" /\ op[MainCaller] = "kpi"

KpiShape(n, m) ==
    /\ Len(args[MainCaller].thresholds) = n
    /\ Len(args[MainCaller].sentences) = m

RedOpen == "<p style=\"color:red\">&#10060; "

GreenOpen == "<p style=\"color:green\">&#x2705; "

OrangeOpen == "<p style=\"color:orange\">&#128993; "

\* html is the message of the colour that opens with `open_`, built from
\* the sentence.
IsMessage(html, open_, sentence) ==
    /\ Len(html) >= 2
    /\ html[1] = open_
    /\ html[2] = sentence
    /\ \A i \in 3..Len(html) : html[i] \notin {RedOpen, GreenOpen, OrangeOpen}

\* C1: with 1 threshold and 2 sentences kpi returns the red message of
\* sentences[0], showing "value < thresholds[0]", when value < thresholds[0],
\* and otherwise (value = thresholds[0] included) the green message of
\* sentences[1], showing "value > thresholds[0]".
C1_OneThreshold ==
    (KpiDone /\ KpiShape(1, 2)) =>
        LET a == args[MainCaller]
            r == outcome[MainCaller]
        IN  /\ r.kind = "returned"
            /\ a.value < a.thresholds[1] =>
                   /\ IsMessage(r.ret, RedOpen, a.sentences[1])
                   /\ r.ret = kpi_red(a.sentences[1], a.value, a.thresholds[1])
            /\ a.value >= a.thresholds[1] =>
                   /\ IsMessage(r.ret, GreenOpen, a.sentences[2])
                   /\ r.ret = kpi_green(a.sentences[2], a.value, a.thresholds[1])

\* The value on the threshold got the green message of the second sentence.
C1_Witness ==
    /\ KpiDone
    /\ KpiShape(1, 2)
    /\ args[MainCaller].value = args[MainCaller].thresholds[1]
    /\ args[MainCaller].sentences = <<"low", "high">>
    /\ IsMessage(outcome[MainCaller].ret, GreenOpen, "high")

\* C2: with 2 thresholds and 3 sentences kpi returns the red message of
\* sentences[0] when value < thresholds[0]; otherwise the green message of
\* sentences[2] when value > thresholds[1]; otherwise (value equal to either
\* threshold included) the orange message of sentences[1].
C2_TwoThresholds ==
    (KpiDone /\ KpiShape(2, 3)) =>
        LET a == args[MainCaller]
            r == outcome[MainCaller]
            low == a.value < a.thresholds[1]
            high == a.value > a.thresholds[2]
        IN  /\ r.kind = "returned"
            /\ low =>
                   /\ IsMessage(r.ret, RedOpen, a.sentences[1])
                   /\ r.ret = kpi_red(a.sentences[1], a.value, a.thresholds[1])
            /\ (~low /\ high) =>
                   /\ IsMessage(r.ret, GreenOpen, a.sentences[3])
                   /\ r.ret = kpi_green(a.sentences[3], a.value, a.thresholds[2])
            /\ (~low /\ ~high) =>
                   /\ IsMessage(r.ret, OrangeOpen, a.sentences[2])
                   /\ r.ret = kpi_orange(a.sentences[2], a.thresholds[1], a.value,
                                         a.thresholds[2])

\* A value on the second threshold, above the first, got the orange message.
C2_Witness ==
    /\ KpiDone
    /\ KpiShape(2, 3)
    /\ args[MainCaller].thresholds[1] < args[MainCaller].thresholds[2]
    /\ args[MainCaller].value = args[MainCaller].thresholds[2]
    /\ args[MainCaller].sentences = <<"low", "high", "low">>
    /\ IsMessage(outcome[MainCaller].ret, OrangeOpen, "high")

C10_RedBeforeGreen ==
    (KpiDone /\ KpiShape(2, 3)) =>
        LET a == args[MainCaller]
            r == outcome[MainCaller].ret
            orange == Len(r) >= 1 /\ r[1] = OrangeOpen
        IN  /\ orange => (a.thresholds[1] <= a.value /\ a.value <= a.thresholds[2])
            /\ a.thresholds[1] > a.thresholds[2] => ~orange
            /\ (a.value < a.thresholds[1] /\ a.value > a.thresholds[2]) =>
                   IsMessage(r, RedOpen, a.sentences[1])

\* Thresholds out of order, a value between them: the red message.
C10_Witness ==
    /\ KpiDone
    /\ KpiShape(2, 3)
    /\ args[MainCaller].value < args[MainCaller].thresholds[1]
    /\ args[MainCaller].value > args[MainCaller].thresholds[2]
    /\ outcome[MainCaller].ret[1] = RedOpen

TabsDone == pc[MainCaller] = "done" /\ op[MainCaller] = "tablinks"

ButtonEnds(html) == {i \in DOMAIN html : html[i] = "</button>"}

Breaks(html) == {i \in DOMAIN html : html[i] = "</br>"}

\* Where the k-th button of html ends.
NthEnd(html, k) ==
    CHOOSE i \in ButtonEnds(html) :
        Cardinality({j \in ButtonEnds(html) : j <= i}) = k

Alone(o, a) ==
    LET f == files[PathOf(o)]
    IN  IF ~f.exists THEN Raised("FileNotFoundError")
        ELSE IF o \notin TemplateOps THEN Returned(f.text)
        ELSE IF ~Parses(f.text) THEN Raised("TemplateSyntaxError")
        ELSE Returned(Render(f.text, Context(o, a)))

InWith(c) == pc[c] \in {"opened", "read"}

\* C5: under any interleaving of concurrent calls of the file-reading
\* operations, each call inside its with block holds a file object of its
\* own, open on its own file, which no other call holds or closes; no file
\* object is open outside the with block of a running call, so none is left
\* once a call has returned or raised; and every call ends as it would when
\* run alone.
C5_OwnHandle ==
    /\ \A c1, c2 \in Callers : (c1 # c2 /\ fd[c1] # 0) => fd[c1] # fd[c2]
    /\ \A x, y \in handles : x.fd = y.fd => x = y
    /\ \A x \in handles :
           \E c \in Callers : InWith(c) /\ fd[c] = x.fd /\ x.path = PathOf(op[c])
    /\ \A c \in Callers :
           /\ InWith(c) => IsOpen(handles, fd[c])
           /\ ~InWith(c) => fd[c] = 0
           /\ pc[c] = "done" => outcome[c] = Alone(op[c], args[c])

\* Two calls of the same operation are inside their with blocks at once,
\* one of them having read its file.
C5_Witness ==
    \E c1, c2 \in Callers :
        /\ c1 # c2
        /\ op[c1] = op[c2]
        /\ pc[c1] = "read"
        /\ pc[c2] = "opened"
        /\ Cardinality(handles) = 2

KpiSupported(a) ==
    \/ Len(a.thresholds) = 1 /\ Len(a.sentences) = 2
    \/ Len(a.thresholds) = 2 /\ Len(a.sentences) = 3

\* kpi ends on its unsupported path: "" returned, one line printed.
KpiDiagnosticStep ==
    \E c \in Callers :
        /\ pc[c] = "called"
        /\ op[c] = "kpi"
        /\ ~KpiSupported(args[c])
        /\ pc'[c] = "done"
        /\ outcome'[c] = Returned(<< >>)
        /\ stdout' = Append(stdout, KpiError)

\* A step that is no operation's: no call moves.
EnvironmentStep ==
    /\ fsChanges' = fsChanges + 1
    /\ UNCHANGED <<pc, op, args, fd, buf, outcome, stdout>>

\* C6, as claimed: whatever is called, nothing is written to the output
\* stream.
C6_NoOutput == stdout = << >>

\* C6, amended: a step changes the output stream only when it is kpi
\* ending on its unsupported-cardinality path, which appends its one
\* diagnostic line; and no step of an operation changes a file: a file
\* changes only by a step of the environment.
C6_OnlyKpiDiagnostic ==
    [][(stdout' # stdout => KpiDiagnosticStep) /\ (files' # files => EnvironmentStep)]_vars

\* kpi has ended on its unsupported path: "" returned, the diagnostic
\* printed.
C6_Witness ==
    \E c \in Callers :
        /\ pc[c] = "done"
        /\ op[c] = "kpi"
        /\ ~KpiSupported(args[c])
        /\ outcome[c] = Returned(<< >>)
        /\ stdout = <<KpiError>>

\* C7: a file-reading operation that finds its file missing ends at once
\* with FileNotFoundError (an I/O error) raised to the caller, no file
\* object opened, no string returned, and the error stays the call's
\* outcome; kpi on a bad pair of lengths returns "" instead of raising;
\* the operations that read no file never raise.
C7_MissingFileRaises ==
    /\ [][\A c \in Callers :
              /\ (/\ pc[c] = "called"
                  /\ op[c] \in FileOps
                  /\ ~files[PathOf(op[c])].exists
                  /\ pc'[c] # "called") =>
                     /\ pc'[c] = "done"
                     /\ outcome'[c] = Raised("FileNotFoundError")
                     /\ handles' = handles
              /\ (pc[c] = "done" /\ pc'[c] = "done") => outcome'[c] = outcome[c]]_vars
    /\ [](\A c \in Callers :
              pc[c] = "done" =>
                  /\ op[c] \in PureOps => outcome[c].kind = "returned"
                  /\ outcome[c].kind = "raised" =>
                         (op[c] \in FileOps /\ outcome[c].ret = << >>)
                  /\ (op[c] = "kpi" /\ ~KpiSupported(args[c])) =>
                         outcome[c] = Returned(<< >>))

\* A file-reading call has ended with FileNotFoundError while its file is
\* missing.
C7_Witness ==
    \E c \in Callers :
        /\ pc[c] = "done"
        /\ op[c] \in FileOps
        /\ ~files[PathOf(op[c])].exists
        /\ outcome[c] = Raised("FileNotFoundError")

IsFragment(tok) == tok \in Fragments

\* C8: row, reading the shipped row template, returns the row container
\* holding its N fragments, each once and in the order given.
C8_RowKeepsFragments ==
    \A c \in Callers :
        (pc[c] = "done" /\ op[c] = "row" /\ buf[c] = RowJ2) =>
            /\ outcome[c].kind = "returned"
            /\ SelectSeq(outcome[c].ret, IsFragment) = args[c].elements
            /\ Len(outcome[c].ret) = Len(args[c].elements) + 2

\* A row of two different fragments has been rendered.
C8_Witness ==
    \E c \in Callers :
        /\ pc[c] = "done"
        /\ op[c] = "row"
        /\ buf[c] = RowJ2
        /\ args[c].elements = <<"<p>b</p>", "<p>a</p>">>
        /\ outcome[c].kind = "returned"

\* What an operation that reads no file returns for its arguments.
PureResult(o, a) ==
    CASE o = "h" -> h(a.level, a.text)
      [] o = "p" -> p(a.text)
      [] o = "kpi" -> kpi(a.thresholds, a.sentences, a.value).ret
      [] o = "add_tab" -> add_tab(a.title, a.htmlcode)
      [] o = "tab_clickable_evt" -> tab_clickable_evt
      [] o = "tablinks" -> tablinks(a.tabs)
      [] o = "header" ->
            header(a.img, a.author, a.report_date, a.report_time, a.report_tz,
                   a.title)

\* C9: every read takes the text the file holds at that moment (no cache:
\* a call after a change of the file gets the new text), and the outcome of
\* a call is a function of its own arguments and of the text it read,
\* whatever calls were made before.
C9_Stateless ==
    /\ [][\A c \in Callers :
              (/\ pc[c] = "opened"
               /\ pc'[c] = "read"
               /\ files[PathOf(op[c])].exists
               /\ ~HandleOf(handles, fd[c]).unlinked) =>
                  buf'[c] = files[PathOf(op[c])].text]_vars
    /\ [](\A c \in Callers :
              pc[c] = "done" =>
                  /\ op[c] \in PureOps =>
                         outcome[c] = Returned(PureResult(op[c], args[c]))
                  /\ (op[c] \in FileOps /\ outcome[c].kind = "returned") =>
                         outcome[c].ret =
                             IF op[c] \in TemplateOps
                             THEN Render(buf[c], Context(op[c], args[c]))
                             ELSE buf[c])

\* A stylesheet call made after the file was edited returned the new text.
C9_Witness ==
    \E c \in Callers :
        /\ pc[c] = "done"
        /\ op[c] = "price_card_stylesheet"
        /\ fsChanges >= 1
        /\ files["style.css"] = Present(Edited("style.css"))
        /\ outcome[c] = Returned(Edited("style.css"))

====
